---- MODULE Spec2Model ----
(***************************************************************************)
(* Model of safe_explorer/ddpg/ddpg.py: the DDPG trainer's control loop    *)
(* (train, evaluate, _update) and its update algorithm (_update_batch,     *)
(* _get_target, _update_targets).                                          *)
(*                                                                         *)
(* Reading of the source:                                                  *)
(*  - The file is Python 3 (f-strings): map(f, xs) builds a lazy iterator  *)
(*    and applies f to nothing unless the iterator is consumed.  The       *)
(*    iterators of eval_mode, train_mode and _update are discarded.        *)
(*  - __init__ binds self._env, self._replay_buffer, self._target_actor    *)
(*    and self._target_critic; train and _update_batch spell them          *)
(*    self.env, self.replay_buffer, self.target_actor, self.target_critic, *)
(*    _get_action spells action_space.high "hight" and _update_batch       *)
(*    spells the batch key "observation" "observations".  The model reads  *)
(*    each of these spellings as the object __init__ (or the collaborator) *)
(*    binds under the nearby name; taken literally every one of them       *)
(*    raises AttributeError/KeyError and no loop body is ever executed.    *)
(*  - Everything else is taken literally, including critic_loss.grad at    *)
(*    line 111: the .grad of a non-leaf tensor is None, so .item() raises. *)
(*  - Real numbers are fixed point: discount_factor and polyak are         *)
(*    numerators over Den, network parameters and rewards are integers.    *)
(***************************************************************************)
EXTENDS Integers, Sequences, FiniteSets, TLC

VARIABLES
    config,           \* self._config: the trainer configuration, fixed for a run
    pc,               \* position of the control flow
    ret,              \* who called evaluate(): "top" or "train"
    step,             \* train: the loop index
    observation,      \* train: local observation
    episode_reward,   \* train: local episode_reward
    episode_length,   \* train: local episode_length
    last,             \* train: the step just executed (action, source, reward, done)
    ev,               \* evaluate: its locals
    env,              \* the environment: observation last returned, steps since reset
    replay_buffer,    \* self._replay_buffer: sequence of transitions, oldest first
    training,         \* mode flag (nn.Module.training) of each of self._models
    params,           \* parameters of actor, critic, target_actor, target_critic
    batch,            \* _update_batch: the sampled batch
    q_target,         \* _update_batch: result of _get_target, scaled by Den
    scalars,          \* self._writer: last value recorded under each tag
    error,            \* the exception the last call raised to its caller, or "none"
    calls             \* invocation counts of evaluate, _update, _update_batch, ...

vars == <<config, pc, ret, step, observation, episode_reward, episode_length, last,
          ev, env, replay_buffer, training, params, batch, q_target, scalars, error,
          calls>>

\* the state only _update_batch and _update_targets touch
updateVars == <<params, batch, q_target, error>>

-----------------------------------------------------------------------------
(* Bounds of the model *)

\* steps_per_epoch * epochs, the length of a training run, is at most MaxSteps
MaxSteps == 4
MaxStartSteps == 1
MaxEpisodeLength == 2
MaxEvaluationSteps == 2
\* calls of evaluate(), _update_batch() and _update_targets() made on the trainer directly
MaxEvaluateCalls == 2
MaxUpdateCalls == 1
MaxTargetCalls == 1
\* discount_factor and polyak are numerators over Den
Den == 2

Models == {"actor", "critic", "target_actor", "target_critic"}

Tags == {"episode length", "episode reward", "eval episode length", "eval episode reward",
         "critic loss", "actor loss"}

NoValue == [none |-> TRUE]

Observations == {0, 1, 2}

Actions == {0, 1}

ParamValues == {0, 1}

BatchSizes == {1, 2}

\* transitions in the replay buffer when the update step is called directly
BufferLens == {1, 2}

\* torch.randn scaled by action_noise_range, discretised
Noise == {-1, 0, 1}

Min(a, b) == IF a < b THEN a ELSE b

Max(a, b) == IF a > b THEN a ELSE b

RECURSIVE SeqSum(_)
SeqSum(s) == IF s = <<>> THEN 0 ELSE Head(s) + SeqSum(Tail(s))

-----------------------------------------------------------------------------
(* Configurations *)

\* The end-to-end scenario of the specification: done after 3 steps, reward 1.
ScenarioConfig ==
    [start_steps |-> 0, epochs |-> 1, steps_per_epoch |-> 10, max_episode_length |-> 3,
     evaluation_steps |-> 1, replay_buffer_size |-> 16, low |-> 0, high |-> 1,
     done_after |-> 3, discount_factor |-> 1, polyak |-> 1, batch_size |-> 1]

\* done_after = 0: the environment may report done at any step.
GeneralConfigs ==
    {c \in [start_steps : 0 .. MaxStartSteps, epochs : 1 .. MaxSteps,
            steps_per_epoch : 1 .. MaxSteps, max_episode_length : 1 .. MaxEpisodeLength,
            evaluation_steps : 1 .. MaxEvaluationSteps, replay_buffer_size : {2},
            low : {0}, high : {1}, done_after : {0}, discount_factor : {1},
            polyak : {1}, batch_size : {1}] :
        c.steps_per_epoch * c.epochs <= MaxSteps}

\* Configurations of the update step: the fields train() reads are fixed; the
\* discount is none (0), the smallest (1 / Den) or the full one (Den / Den).
UpdateConfigs ==
    [start_steps : {0}, epochs : {1}, steps_per_epoch : {1}, max_episode_length : {1},
     evaluation_steps : {1}, replay_buffer_size : {2}, low : {0}, high : {1},
     done_after : {0}, discount_factor : {0, 1, Den}, polyak : 0 .. (Den - 1),
     batch_size : BatchSizes]

\* the bounds an environment can declare for its action space
ActionBounds == {-1, 0, 1}

\* Configurations of action selection: every pair of declared bounds, also the
\* malformed ones (low > high); the other fields are fixed.
ActionConfigs ==
    [start_steps : {0}, epochs : {1}, steps_per_epoch : {1}, max_episode_length : {1},
     evaluation_steps : {1}, replay_buffer_size : {2}, low : ActionBounds,
     high : ActionBounds, done_after : {0}, discount_factor : {1}, polyak : {1},
     batch_size : {1}]

Configs == GeneralConfigs \cup {ScenarioConfig}

IsScenario == config = ScenarioConfig

-----------------------------------------------------------------------------
(* Collaborators: environment, networks, replay buffer *)

\* env.reset(): the first observation of an episode
EnvReset == [obs |-> 0, t |-> 0]

\* the observation that follows observation o and action a
EnvObservation(o, a) == (o + 1 + a) % Cardinality(Observations)

\* the reward of action a when the reward is not fixed
EnvReward(a) == 1 + a

\* env.step(action): the outcomes (next state of env, reward, done)
EnvStep(e, action) ==
    LET t2 == e.t + 1
        o2 == EnvObservation(e.obs, action)
    IN  IF config.done_after > 0
        THEN {[env |-> [obs |-> o2, t |-> Min(t2, config.done_after)],
               reward |-> 1, done |-> (t2 >= config.done_after)]}
        ELSE {[env |-> [obs |-> o2, t |-> 0], reward |-> EnvReward(action), done |-> d] :
                  d \in BOOLEAN}

\* env.action_space.sample()
ActionSpaceSample == config.low .. config.high

\* actor(observation) for an actor with parameter theta
ActorForward(theta, o) == theta + o

\* critic(observation, action) for a critic with parameter w
CriticForward(w, o, a) == w * a + o

\* ReplayBuffer.add: append, evicting the oldest once capacity is reached
BufferAdd(buf, tr) ==
    IF Len(buf) >= config.replay_buffer_size THEN Append(Tail(buf), tr)
    ELSE Append(buf, tr)

-----------------------------------------------------------------------------
(* Pure parts of the trainer *)

\* The number of elements f was applied to by a map(f, xs) whose
\* result is discarded: Python 3's map is lazy.
map_discarded(n) == 0

\* the clip without its upper bound
np_clip_lower_only(a, low, high) == Max(a, low)

\* np.clip(a, low, high) = minimum(maximum(a, low), high)
np_clip(a, low, high) == Min(Max(a, low), high)

\* action selection that adds the exploration noise in both modes
_get_action_always_noisy(obs, is_training) ==
    LET a == ActorForward(params["actor"], obs)
    IN  {np_clip(a + n, config.low, config.high) : n \in Noise}

\* _get_action: the actions it can return (one per noise draw)
_get_action(obs, is_training) ==
    LET a == ActorForward(params["actor"], obs)
    IN  {np_clip(a + (IF is_training THEN n ELSE 0), config.low, config.high) : n \in Noise}

\* the warm-up test with its bound off by one
IsWarmup_inclusive(i) == i <= config.start_steps

\* train line 169: the warm-up test
IsWarmup(i) == i < config.start_steps

\* the episode-end test without the length cap
EpisodeOver_done_only(done, length) == done

\* train line 187, evaluate line 138: the episode-end test
EpisodeOver(done, length) == done \/ (length = config.max_episode_length)

\* train line 197: the epoch test
EpochOver(i) == i # 0 /\ i % config.steps_per_epoch = 0

\* the step budget one step short
number_of_steps_short == config.steps_per_epoch * config.epochs - 1

\* train line 165
number_of_steps == config.steps_per_epoch * config.epochs

\* eval_mode / train_mode: x.eval() / x.train() on the models map() visits
SetMode(modes, flag) ==
    IF map_discarded(Cardinality(Models)) = Cardinality(Models)
    THEN [m \in Models |-> flag] ELSE modes

\* ReplayBuffer.sample(batch_size): the batches it can return, drawn with
\* replacement from the stored transitions
BufferSample(buf, n) ==
    {[i \in 1 .. n |-> buf[pick[i]]] : pick \in [1 .. n -> 1 .. Len(buf)]}

Sign(x) == IF x > 0 THEN 1 ELSE IF x < 0 THEN -1 ELSE 0

\* One optimizer step on a parameter with gradient grad, in units of the
\* learning rate: Adam moves the parameter against the sign of the gradient.
AdamStep(p, grad) == p - Sign(grad)

\* _get_target, lines 68-75, per transition of the batch; values scaled by Den
_get_target(b) ==
    [i \in 1 .. Len(b) |->
        LET reward == b[i].reward
            done == IF b[i].done THEN 1 ELSE 0
            action == ActorForward(params["target_actor"], b[i].observation)
            q == CriticForward(params["target_critic"], b[i].observation, action)
        IN  Den * reward + config.discount_factor * (1 - done) + Den * q]

\* _update_batch, lines 88-89: q_predicted, scaled by Den
q_predicted(b, w) ==
    [i \in 1 .. Len(b) |-> Den * CriticForward(w, b[i].observation, b[i].action)]

\* _update_batch, line 95: critic_loss = -mean((q_predicted - q_target) ** 2),
\* scaled by Den * Den * batch_size
critic_loss(b, w, qt) ==
    - SeqSum([i \in 1 .. Len(b) |-> (q_predicted(b, w)[i] - qt[i]) * (q_predicted(b, w)[i] - qt[i])])

\* d critic_loss / d w, up to a positive factor (d q_predicted[i] / d w = action[i])
critic_grad(b, w, qt) ==
    - SeqSum([i \in 1 .. Len(b) |-> (q_predicted(b, w)[i] - qt[i]) * b[i].action])

\* _update_batch, lines 102-104: actor_loss = -mean(critic(obs, actor(obs))),
\* scaled by batch_size
actor_loss(b, w, theta) ==
    - SeqSum([i \in 1 .. Len(b) |->
                 CriticForward(w, b[i].observation, ActorForward(theta, b[i].observation))])

\* d actor_loss / d theta, up to a positive factor (d critic / d action = w,
\* d actor / d theta = 1)
actor_grad(b, w, theta) == - Len(b) * w

\* _update_targets, lines 81-83, for one parameter pair; the quotient is
\* rounded to the fixed-point grid
_update_targets(target, main) ==
    (config.polyak * target + (Den - config.polyak) * main) \div Den

\* self._writer.add_scalar is a call out of the trainer and may raise. A block
\* of two consecutive add_scalar calls raises at its first call, at its second,
\* or at neither (0).
AddScalarFailures == {0, 1, 2}

\* the writer after a block of two add_scalar calls of which call failed_at raised
AddScalars(sc, tag1, v1, tag2, v2, failed_at) ==
    IF failed_at = 1 THEN sc
    ELSE IF failed_at = 2 THEN [sc EXCEPT ![tag1] = v1]
    ELSE [sc EXCEPT ![tag1] = v1, ![tag2] = v2]

\* the locals of evaluate() while evaluate() is not running
NoEvaluation ==
    [step |-> 0, observation |-> 0, episode_reward |-> 0, episode_length |-> 0,
     rewards |-> <<>>, lengths |-> <<>>]

-----------------------------------------------------------------------------
Init ==
    /\ config \in Configs
    /\ pc = "idle"
    /\ ret = "top"
    /\ step = 0
    /\ observation = 0
    /\ episode_reward = 0
    /\ episode_length = 0
    /\ last = [action |-> 0, source |-> "none", reward |-> 0, done |-> FALSE]
    /\ ev = NoEvaluation
    /\ env = EnvReset
    /\ replay_buffer = <<>>
    /\ training = [m \in Models |-> TRUE]
    /\ params = [m \in Models |-> 0]
    /\ batch = <<>>
    /\ q_target = <<>>
    /\ scalars = [t \in Tags |-> NoValue]
    /\ error = "none"
    /\ calls = [evaluate_top |-> 0, evaluate_train |-> 0, update |-> 0,
                update_batch |-> 0, update_targets |-> 0, episode_ends |-> 0,
                updates_due |-> 0]

\* train(), lines 161-165: reset the environment and the episode state
TrainStart ==
    /\ pc = "idle"
    /\ env' = EnvReset
    /\ observation' = EnvReset.obs
    /\ episode_reward' = 0
    /\ episode_length' = 0
    /\ step' = 0
    /\ pc' = IF number_of_steps > 0 THEN "train_act" ELSE "done"
    /\ UNCHANGED <<config, ret, last, ev, replay_buffer, training, updateVars, scalars, calls>>

\* train(), lines 169-184: select the action, step the environment, store the transition
TrainAct ==
    /\ pc = "train_act"
    /\ \E src \in {"random", "policy"} :
         /\ src = (IF IsWarmup(step) THEN "random" ELSE "policy")
         /\ \E action \in (IF src = "random" THEN ActionSpaceSample
                           ELSE _get_action(observation, TRUE)) :
              \E out \in EnvStep(env, action) :
                /\ env' = out.env
                /\ episode_reward' = episode_reward + out.reward
                /\ episode_length' = episode_length + 1
                /\ replay_buffer' = BufferAdd(replay_buffer,
                       [observation |-> observation, action |-> action,
                        reward |-> out.reward, observation_next |-> out.env.obs,
                        done |-> out.done])
                /\ observation' = out.env.obs
                /\ last' = [action |-> action, source |-> src, reward |-> out.reward,
                            done |-> out.done]
                \* bookkeeping: the episodes that ended and the update steps they call for
                /\ calls' = IF out.done \/ episode_length + 1 = config.max_episode_length
                            THEN [calls EXCEPT !.episode_ends = @ + 1,
                                               !.updates_due = @ + episode_length + 1]
                            ELSE calls
    /\ pc' = "train_episode"
    /\ UNCHANGED <<config, ret, step, ev, training, updateVars, scalars>>

\* train(), lines 187-194: at the end of an episode, update and reset
TrainEpisode ==
    /\ pc = "train_episode"
    /\ IF EpisodeOver(last.done, episode_length)
       THEN \* _update(episode_length), line 120: map() over range(episode_length);
            \* each element visited would run _update_batch once
            /\ calls' = [calls EXCEPT !.update = @ + 1,
                                      !.update_batch = @ + map_discarded(episode_length)]
            /\ env' = EnvReset
            /\ observation' = EnvReset.obs
            /\ episode_reward' = 0
            /\ episode_length' = 0
            \* lines 193-194 read the variables lines 191-192 have just assigned;
            \* an exception of add_scalar is caught nowhere and ends train()
            /\ \E failed_at \in AddScalarFailures :
                 /\ scalars' = AddScalars(scalars, "episode length", episode_length',
                                          "episode reward", episode_reward', failed_at)
                 /\ error' = IF failed_at = 0 THEN error ELSE "WriterError"
                 /\ pc' = IF failed_at = 0 THEN "train_epoch" ELSE "train_raised"
       ELSE /\ pc' = "train_epoch"
            /\ UNCHANGED <<calls, env, observation, episode_reward, episode_length,
                           scalars, error>>
    /\ UNCHANGED <<config, ret, step, last, ev, replay_buffer, training, params, batch,
                   q_target>>

\* the for loop of train(), line 167: the next index, or the end of train()
TrainAdvance ==
    /\ step' = step + 1
    /\ pc' = IF step + 1 < number_of_steps THEN "train_act" ELSE "done"

\* train(), lines 197-200: at the end of an epoch, evaluate
TrainEpoch ==
    /\ pc = "train_epoch"
    /\ IF EpochOver(step)
       THEN /\ pc' = "eval_call"
            /\ ret' = "train"
            /\ calls' = [calls EXCEPT !.evaluate_train = @ + 1]
            /\ UNCHANGED step
       ELSE /\ TrainAdvance
            /\ UNCHANGED <<ret, calls>>
    /\ UNCHANGED <<config, observation, episode_reward, episode_length, last, ev, env,
                   replay_buffer, training, updateVars, scalars>>

\* evaluate() called on the trainer directly
CallEvaluate ==
    /\ pc = "idle"
    /\ calls.evaluate_top < MaxEvaluateCalls
    /\ pc' = "eval_call"
    /\ ret' = "top"
    /\ calls' = [calls EXCEPT !.evaluate_top = @ + 1]
    /\ UNCHANGED <<config, step, observation, episode_reward, episode_length, last, ev,
                   env, replay_buffer, training, updateVars, scalars>>

\* evaluate(), lines 123-130
EvaluateStart ==
    /\ pc = "eval_call"
    /\ env' = EnvReset
    /\ ev' = [step |-> 0, observation |-> EnvReset.obs, episode_reward |-> 0,
              episode_length |-> 0, rewards |-> <<>>, lengths |-> <<>>]
    /\ training' = SetMode(training, FALSE)
    /\ pc' = IF config.evaluation_steps > 0 THEN "eval_step" ELSE "eval_report"
    /\ UNCHANGED <<config, ret, step, observation, episode_reward, episode_length, last,
                   replay_buffer, updateVars, scalars, calls>>

\* evaluate(), lines 132-140: one iteration of the evaluation loop
EvaluateStep ==
    /\ pc = "eval_step"
    /\ \E action \in _get_action(ev.observation, FALSE) :
         \E out \in EnvStep(env, action) :
           LET r2 == ev.episode_reward + out.reward
               l2 == ev.episode_length + 1
               over == EpisodeOver(out.done, l2)
           IN  /\ env' = out.env
               /\ ev' = [step |-> ev.step + 1, observation |-> out.env.obs,
                         episode_reward |-> r2, episode_length |-> l2,
                         rewards |-> IF over THEN Append(ev.rewards, r2) ELSE ev.rewards,
                         lengths |-> IF over THEN Append(ev.lengths, l2) ELSE ev.lengths]
    /\ pc' = IF ev.step + 1 < config.evaluation_steps THEN "eval_step" ELSE "eval_report"
    /\ UNCHANGED <<config, ret, step, observation, episode_reward, episode_length, last,
                   replay_buffer, training, updateVars, scalars, calls>>

\* evaluate(), lines 142-143: np.mean of the scalars episode_length, episode_reward
EvaluateReport ==
    /\ pc = "eval_report"
    /\ \E failed_at \in AddScalarFailures :
         /\ scalars' = AddScalars(scalars, "eval episode length", ev.episode_length,
                                  "eval episode reward", ev.episode_reward, failed_at)
         /\ IF failed_at = 0
            THEN /\ pc' = "eval_return"
                 /\ UNCHANGED <<ret, ev, error>>
            ELSE \* the exception leaves evaluate() and, through it, train()
                 /\ pc' = IF ret = "train" THEN "train_raised" ELSE "idle"
                 /\ ret' = "top"
                 /\ ev' = NoEvaluation
                 /\ error' = "WriterError"
    /\ UNCHANGED <<config, step, observation, episode_reward, episode_length, last,
                   env, replay_buffer, training, params, batch, q_target, calls>>

\* evaluate(), lines 145-148: train_mode() and return to the caller
EvaluateReturn ==
    /\ pc = "eval_return"
    /\ training' = SetMode(training, TRUE)
    /\ IF ret = "train"
       THEN TrainAdvance
       ELSE pc' = "idle" /\ UNCHANGED step
    /\ ret' = "top"
    /\ ev' = NoEvaluation
    /\ UNCHANGED <<config, observation, episode_reward, episode_length, last, env,
                   replay_buffer, updateVars, scalars, calls>>

-----------------------------------------------------------------------------
(* The update step, called on the trainer directly *)

\* optimizers that hold the target networks' parameters too
_initialize_optimizers_with_targets(net) == {net, "target_" \o net}

\* _initialize_target_networks and _initialize_optimizers, lines 33-39: the
\* targets are deep copies, and the optimizer of a network is built from that
\* network's parameters() alone: the parameters a step of it assigns
_initialize_optimizers(net) == {net}

\* optimizer.step(), lines 97 and 106: the stepped parameters take the new value
OptimizerStep(net, value) ==
    [m \in Models |-> IF m \in _initialize_optimizers(net) THEN value ELSE params[m]]

Transitions ==
    {[observation |-> o, action |-> a, reward |-> EnvReward(a),
      observation_next |-> EnvObservation(o, a), done |-> d] :
        o \in Observations, a \in Actions, d \in BOOLEAN}

\* The buffers train() can have filled: consecutive transitions of an episode chain
Buffers ==
    {b \in UNION {[1 .. n -> Transitions] : n \in BufferLens} :
        \A i \in 1 .. (Len(b) - 1) :
            b[i + 1].observation = IF b[i].done THEN EnvReset.obs ELSE b[i].observation_next}

\* A trainer with transitions in its buffer and networks that have been trained
InitUpdate ==
    /\ config \in UpdateConfigs
    /\ pc = "idle"
    /\ ret = "top"
    /\ step = 0
    /\ observation = 0
    /\ episode_reward = 0
    /\ episode_length = 0
    /\ last = [action |-> 0, source |-> "none", reward |-> 0, done |-> FALSE]
    /\ ev = NoEvaluation
    /\ env = EnvReset
    /\ replay_buffer \in Buffers
    /\ training = [m \in Models |-> TRUE]
    /\ params \in [Models -> ParamValues]
    /\ batch = <<>>
    /\ q_target = <<>>
    /\ scalars = [t \in Tags |-> NoValue]
    /\ error = "none"
    /\ calls = [evaluate_top |-> 0, evaluate_train |-> 0, update |-> 0,
                update_batch |-> 0, update_targets |-> 0, episode_ends |-> 0,
                updates_due |-> 0]

trainVars == <<config, ret, step, observation, episode_reward, episode_length, last, ev,
               env, replay_buffer, training>>

\* _update_batch(), lines 86-91: sample the batch, compute q_predicted and q_target
UpdateBatchSample ==
    /\ pc = "idle"
    /\ calls.update_batch < MaxUpdateCalls
    /\ calls' = [calls EXCEPT !.update_batch = @ + 1]
    /\ IF Len(replay_buffer) < config.batch_size
       THEN /\ error' = "InsufficientDataError"
            /\ pc' = "idle"
            /\ UNCHANGED <<batch, q_target>>
       ELSE /\ batch' \in BufferSample(replay_buffer, config.batch_size)
            /\ q_target' = _get_target(batch')
            /\ error' = "none"
            /\ pc' = "update_critic"
    /\ UNCHANGED <<trainVars, params, scalars>>

\* _update_batch(), lines 94-97: the critic's gradient step
UpdateBatchCritic ==
    /\ pc = "update_critic"
    /\ params' = OptimizerStep("critic",
                     AdamStep(params["critic"],
                              critic_grad(batch, params["critic"], q_target)))
    /\ pc' = "update_actor"
    /\ UNCHANGED <<trainVars, batch, q_target, scalars, error, calls>>

\* _update_batch(), lines 100-106: the actor's gradient step
UpdateBatchActor ==
    /\ pc = "update_actor"
    /\ params' = OptimizerStep("actor",
                     AdamStep(params["actor"],
                              actor_grad(batch, params["critic"], params["actor"])))
    /\ pc' = "update_log"
    /\ UNCHANGED <<trainVars, batch, q_target, scalars, error, calls>>

\* _update_batch(), lines 109-111: the losses are recorded; critic_loss is not a
\* leaf tensor, its .grad is None and None.item() raises, so that lines 112-116
\* (the target updates) are not reached
UpdateBatchLog ==
    /\ pc = "update_log"
    /\ \E failed_at \in AddScalarFailures :
         /\ scalars' = AddScalars(scalars,
                "critic loss", critic_loss(batch, params["critic"], q_target),
                "actor loss", actor_loss(batch, params["critic"], params["actor"]),
                failed_at)
         /\ error' = IF failed_at = 0 THEN "AttributeError" ELSE "WriterError"
    \* the exception leaves _update_batch, whose locals are gone
    /\ batch' = <<>>
    /\ q_target' = <<>>
    /\ pc' = "idle"
    /\ UNCHANGED <<trainVars, params, calls>>

\* _update_targets(target, main) called for one of the two pairs
UpdateTargets ==
    /\ pc = "idle"
    /\ calls.update_targets < MaxTargetCalls
    /\ \E pair \in {<<"target_actor", "actor">>, <<"target_critic", "critic">>} :
         params' = [params EXCEPT ![pair[1]] = _update_targets(@, params[pair[2]])]
    /\ calls' = [calls EXCEPT !.update_targets = @ + 1]
    /\ error' = "none"
    /\ UNCHANGED <<trainVars, pc, batch, q_target, scalars>>

NextUpdate ==
    \/ UpdateBatchSample
    \/ UpdateBatchCritic
    \/ UpdateBatchActor
    \/ UpdateBatchLog
    \/ UpdateTargets

SpecUpdate == InitUpdate /\ [][NextUpdate]_vars

-----------------------------------------------------------------------------
(* Action selection, called on the trainer directly *)

\* A trainer whose actor has been trained, and an observation to act on
InitAction ==
    /\ config \in ActionConfigs
    /\ pc = "idle"
    /\ ret = "top"
    /\ step = 0
    /\ observation \in Observations
    /\ episode_reward = 0
    /\ episode_length = 0
    /\ last = [action |-> 0, source |-> "none", reward |-> 0, done |-> FALSE]
    /\ ev = NoEvaluation
    /\ env = EnvReset
    /\ replay_buffer = <<>>
    /\ training = [m \in Models |-> TRUE]
    /\ params \in [Models -> ParamValues]
    /\ batch = <<>>
    /\ q_target = <<>>
    /\ scalars = [t \in Tags |-> NoValue]
    /\ error = "none"
    /\ calls = [evaluate_top |-> 0, evaluate_train |-> 0, update |-> 0,
                update_batch |-> 0, update_targets |-> 0, episode_ends |-> 0,
                updates_due |-> 0]

\* _get_action(observation, is_training), lines 50-58: it has no test of the
\* bounds and no raise of its own; it returns the clipped value
GetAction ==
    /\ pc = "idle"
    /\ \E is_training \in BOOLEAN :
         \E action \in _get_action(observation, is_training) :
           last' = [action |-> action,
                    source |-> IF is_training THEN "policy" ELSE "greedy",
                    reward |-> 0, done |-> FALSE]
    /\ error' = "none"
    /\ pc' = "acted"
    /\ UNCHANGED <<config, ret, step, observation, episode_reward, episode_length, ev,
                   env, replay_buffer, training, params, batch, q_target, scalars, calls>>

\* the caller comes back with another observation
NextObservation ==
    /\ pc = "acted"
    /\ observation' \in Observations
    /\ pc' = "idle"
    /\ UNCHANGED <<config, ret, step, episode_reward, episode_length, last, ev, env,
                   replay_buffer, training, params, batch, q_target, scalars, error,
                   calls>>

NextAction == GetAction \/ NextObservation

SpecAction == InitAction /\ [][NextAction]_vars

-----------------------------------------------------------------------------
Next ==
    \/ TrainStart
    \/ TrainAct
    \/ TrainEpisode
    \/ TrainEpoch
    \/ CallEvaluate
    \/ EvaluateStart
    \/ EvaluateStep
    \/ EvaluateReport
    \/ EvaluateReturn

Spec == Init /\ [][Next]_vars

-----------------------------------------------------------------------------
(* Properties *)

\* the training steps executed when the loop is at index step, past its action
StepsExecuted == step + 1

\* C1: whenever an episode of train() ends, exactly episode_length update steps
\* (_update_batch executions) are performed before the episode state is reset and
\* the next action is selected: past the episode-end handling, the update steps
\* performed are those the ended episodes call for.
C1_UpdateStepsPerEpisode ==
    pc # "train_episode" => calls.update_batch = calls.updates_due

\* C2: train() invokes evaluate() exactly once each time k * steps_per_epoch
\* training steps have been executed, k in 1 .. epochs: an evaluation starts only
\* on a multiple of steps_per_epoch, it is the k-th one, and a finished run has
\* made epochs evaluations.
C2_EvaluateEveryEpoch ==
    /\ (pc = "eval_call" /\ ret = "train") =>
           /\ StepsExecuted % config.steps_per_epoch = 0
           /\ calls.evaluate_train = StepsExecuted \div config.steps_per_epoch
    /\ pc = "done" => calls.evaluate_train = config.epochs

TargetQ(o) ==
    CriticForward(params["target_critic"], o, ActorForward(params["target_actor"], o))

\* C5: for every transition of the batch with done=1 the target of _get_target
\* equals the transition's reward.
C5_TerminalTargetIsReward ==
    \A i \in 1 .. Len(q_target) :
        batch[i].done => q_target[i] = Den * batch[i].reward

\* C6: for every transition of the batch with done=0 the target of _get_target
\* equals reward + discount_factor * Qt, Qt the target critic's value of the
\* target actor's action at the transition's next observation.
C6_TargetBootstrapsFromNext ==
    \A i \in 1 .. Len(q_target) :
        ~batch[i].done =>
            q_target[i] = Den * batch[i].reward
                          + config.discount_factor * TargetQ(batch[i].observation_next)

\* C7: every update step ends with the smoothing of both target networks: when
\* _update_batch is left after its gradient steps, each target parameter is
\* polyak * old_target + (1 - polyak) * live, live the parameter after the step.
C7_UpdateStepSmoothsTargets ==
    [][(pc = "update_log" /\ pc' = "idle") =>
          \A pair \in {<<"target_actor", "actor">>, <<"target_critic", "critic">>} :
              Den * params'[pair[1]] =
                  config.polyak * params[pair[1]]
                  + (Den - config.polyak) * params'[pair[2]]]_vars

C9_ModesSwitchAroundEvaluation ==
    /\ pc = "eval_step" => \A m \in Models : ~training[m]
    /\ pc = "train_act" => \A m \in Models : training[m]

\* C10: evaluate() reports the means of the cumulative rewards and of the
\* lengths of the evaluation episodes completed within evaluation_steps.
C10_EvaluateReportsMeans ==
    (pc = "eval_return" /\ ev.lengths # <<>>) =>
        /\ scalars["eval episode length"] * Len(ev.lengths) = SeqSum(ev.lengths)
        /\ scalars["eval episode reward"] * Len(ev.rewards) = SeqSum(ev.rewards)

\* C11: a failing metric emission (an add_scalar call that raises) at an episode
\* boundary of train() is not propagated out of train(): train() never ends by
\* the writer's exception, the loop goes on to its epoch test.
C11_MetricFailureNotPropagated ==
    ~(pc = "train_raised" /\ error = "WriterError")

C15_MalformedBoundsRejected ==
    config.low > config.high => pc # "acted"

EvaluateTags == {"eval episode length", "eval episode reward"}

\* an earlier evaluate() has written both values: no writer call has failed so
\* far and this is not the first call of evaluate()
EarlierEvaluationReported ==
    error = "none" /\ calls.evaluate_top + calls.evaluate_train >= 2

TrainStepsTaken == IF pc = "done" THEN step ELSE StepsExecuted

\* C14: whatever done signals the environment gives, train() ends, and when it
\* has ended it has executed exactly steps_per_epoch * epochs training steps
\* (the steps of evaluate() are not among them).
C14_TrainEndsAfterBudget ==
    pc \in {"done", "train_raised"} => TrainStepsTaken = number_of_steps

\* C16: within an update step the critic's gradient step comes first, the
\* actor's gradient step second (taken with the critic it finds, the one just
\* updated, the critic and the targets left alone), and the target sync third:
\* the step is not left before _update_targets has been called.
C16_CriticThenActorThenSync ==
    [][/\ pc = "update_critic" =>
             /\ pc' = "update_actor"
             /\ params'["actor"] = params["actor"]
       /\ pc = "update_actor" =>
             /\ pc' = "update_log"
             /\ params'["critic"] = params["critic"]
             /\ params'["actor"] =
                    AdamStep(params["actor"],
                             actor_grad(batch, params["critic"], params["actor"]))
       /\ pc = "update_log" =>
             calls'.update_targets > calls.update_targets]_vars

\* C17: episode state is reset at every episode boundary of train() and of
\* evaluate(): an action is selected only below the length cap, and the episode
\* step count of neither loop ever exceeds max_episode_length.
C17_EpisodeLengthCapped ==
    /\ pc = "train_act" => episode_length < config.max_episode_length
    /\ pc = "eval_step" => ev.episode_length < config.max_episode_length
    /\ episode_length <= config.max_episode_length
    /\ ev.episode_length <= config.max_episode_length

TargetModels == {"target_actor", "target_critic"}

\* C18: the parameters of the target actor and of the target critic change only
\* in _update_targets: a step that is not a call of it (a gradient step of the
\* critic or of the actor among them) leaves them as they are.
C18_TargetsChangeOnlyInUpdateTargets ==
    [][calls'.update_targets = calls.update_targets =>
          \A m \in TargetModels : params'[m] = params[m]]_vars

C18_GradientStepsLeftTargets ==
    /\ pc = "update_log"
    /\ calls.update_targets = 0
    /\ q_target = _get_target(batch)
    /\ params["critic"] # params["target_critic"]
    /\ params["actor"] # params["target_actor"]

\* C19: the observation stored with a transition of train() is the one the
\* environment returned last before the action was applied (what the action was
\* applied to), also at the first training step after an evaluate().
C19_StoredObservationIsCurrent ==
    [][(pc = "train_act" /\ pc' = "train_episode") =>
          replay_buffer'[Len(replay_buffer')].observation = env.obs]_vars

\* C20: the "episode length" and "episode reward" recorded at an episode
\* boundary of train() are the length and the cumulative reward of the episode
\* that has just ended, not the values after the reset.
C20_MetricsOfEndedEpisode ==
    [][(pc = "train_episode" /\ pc' = "train_epoch"
        /\ calls'.update = calls.update + 1) =>
          /\ scalars'["episode length"] = episode_length
          /\ scalars'["episode reward"] = episode_reward]_vars

====
